---------------------------- MODULE Spec2Model ----------------------------
(***************************************************************************)
(* WmsMapType (src/src/wmsmaptype.ts): a multi-resolution tile cache and   *)
(* level-of-detail compositing engine.  The state is the image cache, the  *)
(* registry of active tiles, the child lists of the tile containers, the   *)
(* image decodes in flight and the two mutable configuration fields.       *)
(***************************************************************************)
EXTENDS Integers, Sequences, FiniteSets, TLC

(* ------------------------------ bounds --------------------------------- *)

\* Number of tiles the map displays at once (divs handed out by getTile and
\* not yet released).
MaxTiles == 2

\* Number of image decodes in flight at once.
MaxPending == 2

\* levelOfDetail and maxOversample range over 0..MaxSetting.
MaxSetting == 1

\* LODs of the entries of the mipmaps and caches the engine's functions are
\* called on directly range over 0..MaxLod.
MaxLod == 3

\* The engine's functions are called directly on tiles of zoom 0..MaxZoom.
MaxZoom == 2

\* The rectangles compositeFromSmaller is made to split have sides of
\* 0..MaxSide pixels, or of about tileSize pixels.
MaxSide == 9

(* ------------------------ program constants ---------------------------- *)

\* The tileSize option's default.
tileSize == 256

\* JavaScript's undefined where a number is expected (a difference or a
\* bound that has not been set); every real difference is >= 0.
undefined == -1

\* No image / no canvas (JavaScript's undefined or null element).
null == <<>>

(* --------------------------- arithmetic -------------------------------- *)

Pow2(n) == 2 ^ n

\* x << n on a non-negative x: the shift count is taken modulo 32 and the
\* result is a signed integer of 32 bits, bit 31 being its sign.
ShlLow(low, k) == IF low = 0 THEN 0 ELSE low * Pow2(k)

Shl(x, n) ==
  IF n % 32 = 0 THEN x
  ELSE IF (x \div Pow2(31 - (n % 32))) % 2 = 1
  THEN ShlLow(x % Pow2(31 - (n % 32)), n % 32) - 2147483647 - 1
  ELSE ShlLow(x % Pow2(31 - (n % 32)), n % 32)

\* x >> n on the non-negative integers the engine shifts right.
Shr(x, n) == x \div Pow2(n)

Abs(x) == IF x < 0 THEN -x ELSE x
MinOf(a, b) == IF a < b THEN a ELSE b
MaxOf(a, b) == IF a > b THEN a ELSE b
SetMin(S) == CHOOSE m \in S : \A o \in S : m <= o

(* ----------------------------- domains --------------------------------- *)

Settings == 0..MaxSetting

\* The tiles the map asks for: the root tile and its top-left child.
TileParams ==
  { [zoom |-> 0, coord |-> [x |-> 0, y |-> 0]],
    [zoom |-> 1, coord |-> [x |-> 0, y |-> 0]] }

(* --------------------------- cache store ------------------------------- *)

\* imageCache[zoom][y][x][lod], a sparse four-dimensional array, is a
\* function from the populated keys <<zoom, y, x, lod>> to images.
Key(zoom, coord, lod) == <<zoom, coord.y, coord.x, lod>>

\* imageCache[zoom]?.[y]?.[x]?.[lod]
Lookup(cache, zoom, coord, lod) ==
  IF Key(zoom, coord, lod) \in DOMAIN cache THEN cache[Key(zoom, coord, lod)] ELSE null

\* imageCache[zoom]?.[y]?.[x]: the cell's sparse LOD array, as a function
\* from its populated indices.  The array exists only once an entry was
\* written to it, so "no array" is the empty function.
Mipmap(cache, zoom, coord) ==
  LET lods == { k[4] : k \in { q \in DOMAIN cache :
                                 q[1] = zoom /\ q[2] = coord.y /\ q[3] = coord.x } }
  IN  [l \in lods |-> cache[Key(zoom, coord, l)]]

(* --------------------------- mipmap search ----------------------------- *)

\* A comparison that lets a later entry of the same difference win.
ImprovesOrTies(difference, bestDifference) ==
  IF bestDifference = undefined THEN TRUE ELSE ~(difference > bestDifference)

\* !(difference >= bestDifference): true when bestDifference is undefined.
Improves(difference, bestDifference) ==
  IF bestDifference = undefined THEN TRUE ELSE ~(difference >= bestDifference)

\* mipmap.forEach over the populated indices in ascending order: todo are
\* the indices still to visit, lod the one visited now.
RECURSIVE NearestLodScan(_, _, _, _, _)
RECURSIVE NearestLodVisit(_, _, _, _, _, _)
NearestLodVisit(mipmap, todo, targetLod, bestImage, bestDifference, lod) ==
  IF Improves(Abs(lod - targetLod), bestDifference)
  THEN NearestLodScan(mipmap, todo \ {lod}, targetLod, mipmap[lod], Abs(lod - targetLod))
  ELSE NearestLodScan(mipmap, todo \ {lod}, targetLod, bestImage, bestDifference)

NearestLodScan(mipmap, todo, targetLod, bestImage, bestDifference) ==
  IF todo = {} THEN <<bestImage, bestDifference>>
  ELSE NearestLodVisit(mipmap, todo, targetLod, bestImage, bestDifference, SetMin(todo))

findNearestLod(mipmap, targetLod, betterThan) ==
  NearestLodScan(mipmap, DOMAIN mipmap, targetLod, null, betterThan)

(* ------------------------- larger-tile resolver ------------------------ *)

\* [candidate, bestDifference] = findNearestLod(...); if (candidate) best = ...
LargerFound(found, mipCoord, levelsAbove, best) ==
  <<IF found[1] # null
    THEN [image |-> found[1], x |-> mipCoord.x, y |-> mipCoord.y,
          levelsAbove |-> levelsAbove]
    ELSE best,
    found[2]>>

\* The body of the loop of tileFromLarger at levelsAbove: <<best, bestDifference>>.
LargerVisit(mipmap, mipCoord, lod, levelsAbove, bestDifference, best) ==
  IF DOMAIN mipmap = {} THEN <<best, bestDifference>>
  ELSE LargerFound(findNearestLod(mipmap, lod + levelsAbove, bestDifference),
                   mipCoord, levelsAbove, best)

\* A resolver that looks at the requested coordinates at every zoom.
MipCoordUnshifted(coord, levelsAbove) == [x |-> coord.x, y |-> coord.y]

MipCoord(coord, levelsAbove) ==
  [x |-> Shr(coord.x, levelsAbove), y |-> Shr(coord.y, levelsAbove)]

\* The loop of tileFromLarger from levelsAbove on; state is <<best, bestDifference>>.
RECURSIVE LargerScan(_, _, _, _, _, _)
LargerScan(cache, zoom, coord, lod, levelsAbove, state) ==
  IF zoom - levelsAbove < 0 THEN state
  ELSE LargerScan(cache, zoom, coord, lod, levelsAbove + 1,
                  LargerVisit(Mipmap(cache, zoom - levelsAbove, MipCoord(coord, levelsAbove)),
                              MipCoord(coord, levelsAbove), lod, levelsAbove,
                              state[2], state[1]))

\* A canvas the ancestor image is drawn into at its own size.
CropUnscaled(best, coord) ==
  [kind |-> "crop", image |-> best.image, levelsAbove |-> best.levelsAbove,
   dx |-> (Shl(best.x, best.levelsAbove) - coord.x) * tileSize,
   dy |-> (Shl(best.y, best.levelsAbove) - coord.y) * tileSize,
   ds |-> tileSize]

\* The canvas tileFromLarger draws best into, with the drawImage arguments.
Crop(best, coord) ==
  [kind |-> "crop", image |-> best.image, levelsAbove |-> best.levelsAbove,
   dx |-> (Shl(best.x, best.levelsAbove) - coord.x) * tileSize,
   dy |-> (Shl(best.y, best.levelsAbove) - coord.y) * tileSize,
   ds |-> Shl(tileSize, best.levelsAbove)]

LargerResult(state, coord) ==
  IF state[1] # null THEN <<Crop(state[1], coord), state[2]>> ELSE <<null, undefined>>

\* <<canvas, difference>>
tileFromLarger(cache, zoom, coord, lod) ==
  LargerResult(LargerScan(cache, zoom, coord, lod, 0, <<null, undefined>>), coord)

(* ------------------------ smaller-tile compositor ---------------------- *)

\* cc
ChildCoord(coord, i, j) == [x |-> Shl(coord.x, 1) + i, y |-> Shl(coord.y, 1) + j]

\* Quadrants of the same rounded-down size on both sides.
ChildRectHalved(drect, i, j) ==
  [x |-> IF i = 1 THEN drect.x + Shr(drect.w, 1) ELSE drect.x,
   y |-> IF j = 1 THEN drect.y + Shr(drect.h, 1) ELSE drect.y,
   w |-> Shr(drect.w, 1),
   h |-> Shr(drect.h, 1)]

\* cd
ChildRect(drect, i, j) ==
  [x |-> IF i = 1 THEN drect.x + Shr(drect.w, 1) ELSE drect.x,
   y |-> IF j = 1 THEN drect.y + Shr(drect.h, 1) ELSE drect.y,
   w |-> IF i = 1 THEN drect.w - Shr(drect.w, 1) ELSE Shr(drect.w, 1),
   h |-> IF j = 1 THEN drect.h - Shr(drect.h, 1) ELSE Shr(drect.h, 1)]

\* canvas.drawImage(image, cd.x, cd.y, cd.w, cd.h); exact tells the two call
\* sites apart (the child at lod, or a proxy).
Draw(image, cd, exact) == [image |-> image, rect |-> cd, exact |-> exact]

\* The call of line 295 as the caller makes it: the arguments it passes
\* and the ones it was itself called with.
Recursed(lod, proxyBetterThan, nextBetterThan) ==
  [lod |-> lod - 1, proxyBetterThan |-> nextBetterThan,
   callerLod |-> lod, callerBetterThan |-> proxyBetterThan]

\* A quadrant that counts as filled once a proxy is drawn into it.
ProxyThenBelowCompleting(proxy, cd, call, below) ==
  [complete |-> below.complete \/ proxy # null,
   draws |-> (IF proxy # null THEN <<Draw(proxy, cd, FALSE)>> ELSE <<>>) \o below.draws,
   calls |-> <<call>> \o below.calls,
   depth |-> below.depth]

\* A quadrant that is left to its proxy when there is one.
ProxyThenBelowStopping(proxy, cd, call, below) ==
  IF proxy # null
  THEN [complete |-> FALSE, draws |-> <<Draw(proxy, cd, FALSE)>>, calls |-> <<>>,
        depth |-> 0]
  ELSE [complete |-> below.complete, draws |-> below.draws,
        calls |-> <<call>> \o below.calls, depth |-> below.depth]

\* The else branch once the proxy search is done: the proxy is drawn if
\* there is one, then the recursion runs over the same rectangle.
ProxyThenBelow(proxy, cd, call, below) ==
  [complete |-> below.complete,
   draws |-> (IF proxy # null THEN <<Draw(proxy, cd, FALSE)>> ELSE <<>>) \o below.draws,
   calls |-> <<call>> \o below.calls,
   depth |-> below.depth]

\* [proxy, nextBetterThan], which stays <<undefined, proxyBetterThan>>
\* without a mipmap.
ProxySearch(mipmap, lod, proxyBetterThan) ==
  IF DOMAIN mipmap # {} THEN findNearestLod(mipmap, lod, proxyBetterThan)
  ELSE <<null, proxyBetterThan>>

\* A cut-off that lets one more level through.
CutOffLate(lod, proxyBetterThan) == lod + proxyBetterThan < 0 - 1

\* if (lod + proxyBetterThan < 0) return false;
CutOff(lod, proxyBetterThan) == lod + proxyBetterThan < 0

\* The loops have run: one more level of the recursion went past the cut-off.
Entered(r) == [r EXCEPT !.depth = @ + 1]

\* The result of compositeFromSmaller and of one quadrant of its loops:
\* the boolean it returns, the drawImage calls it made, in order, the
\* recursive calls made in it, in order, and the number of nested
\* invocations that went past the cut-off.
RECURSIVE compositeFromSmaller(_, _, _, _, _, _)
RECURSIVE QuadrantBelow(_, _, _, _, _, _, _)
QuadrantBelow(cache, cc, cd, zoom, lod, proxyBetterThan, found) ==
  ProxyThenBelow(found[1], cd, Recursed(lod, proxyBetterThan, found[2]),
                 compositeFromSmaller(cache, cc, cd, zoom + 1, lod - 1, found[2]))

Quadrant(cache, cc, cd, zoom, lod, proxyBetterThan, mipmap) ==
  IF lod \in DOMAIN mipmap
  THEN [complete |-> TRUE, draws |-> <<Draw(mipmap[lod], cd, TRUE)>>,
        calls |-> <<>>, depth |-> 0]
  ELSE QuadrantBelow(cache, cc, cd, zoom, lod, proxyBetterThan,
                     ProxySearch(mipmap, lod, proxyBetterThan))

QuadrantAt(cache, coord, drect, zoom, lod, proxyBetterThan, i, j) ==
  Quadrant(cache, ChildCoord(coord, i, j), ChildRect(drect, i, j), zoom, lod,
           proxyBetterThan, Mipmap(cache, zoom, ChildCoord(coord, i, j)))

\* complete stays true only if no quadrant cleared it; j is the outer loop.
AllQuadrants(q1, q2, q3, q4) ==
  [complete |-> q1.complete /\ q2.complete /\ q3.complete /\ q4.complete,
   draws |-> q1.draws \o q2.draws \o q3.draws \o q4.draws,
   calls |-> q1.calls \o q2.calls \o q3.calls \o q4.calls,
   depth |-> MaxOf(MaxOf(q1.depth, q2.depth), MaxOf(q3.depth, q4.depth))]

compositeFromSmaller(cache, coord, drect, zoom, lod, proxyBetterThan) ==
  IF CutOff(lod, proxyBetterThan)
  THEN [complete |-> FALSE, draws |-> <<>>, calls |-> <<>>, depth |-> 0]
  ELSE Entered(AllQuadrants(
         QuadrantAt(cache, coord, drect, zoom, lod, proxyBetterThan, 0, 0),
         QuadrantAt(cache, coord, drect, zoom, lod, proxyBetterThan, 1, 0),
         QuadrantAt(cache, coord, drect, zoom, lod, proxyBetterThan, 0, 1),
         QuadrantAt(cache, coord, drect, zoom, lod, proxyBetterThan, 1, 1)))

SmallerResult(r) ==
  <<[kind |-> "composite", complete |-> r.complete, draws |-> r.draws], r.complete>>

\* A compositor started at the LOD asked for instead of the one below.
tileFromSmallerSameLod(cache, zoom, coord, lod, proxyBetterThan) ==
  SmallerResult(compositeFromSmaller(cache, coord,
                                     [x |-> 0, y |-> 0, w |-> tileSize, h |-> tileSize],
                                     zoom + 1, lod, proxyBetterThan))

\* <<canvas, complete>>
tileFromSmaller(cache, zoom, coord, lod, proxyBetterThan) ==
  SmallerResult(compositeFromSmaller(cache, coord,
                                     [x |-> 0, y |-> 0, w |-> tileSize, h |-> tileSize],
                                     zoom + 1, lod - 1, proxyBetterThan))

(* ------------------------------ elements ------------------------------- *)

\* Elements are created fresh by ownerDocument.createElement.  A div is
\* named by the least number no div in use has; an img by its src and the
\* least number no img in use with that src has.
LeastUnused(used) == CHOOSE n \in 0..Cardinality(used) :
                       n \notin used /\ \A m \in 0..(n - 1) : m \in used

\* String(n) for an integer n >= 0: its decimal digits.
RECURSIVE String(_)
String(n) == IF n < 10 THEN <<n>> ELSE Append(String(n \div 10), n % 10)

\* The mercator bounds [minx, miny, maxx, maxy] of a tile, as exact
\* multiples of EPSG_3857_EXTENT / den, where den is 1 << zoom + 7.
xyzToBounds(x, y, zoom, size) ==
  [den |-> Shl(1, zoom + 7),
   minx |-> x * size - Shl(1, zoom + 7),
   miny |-> Shl(1, zoom + 7) - (y + 1) * size,
   maxx |-> (x + 1) * size - Shl(1, zoom + 7),
   maxy |-> Shl(1, zoom + 7) - y * size]

\* A URL that asks for tileSize pixels whatever the LOD.
TileUrlUnscaled(size, coord, zoom, lod) ==
  [bbox |-> xyzToBounds(coord.x, coord.y, zoom, size),
   width |-> String(size),
   height |-> String(size)]

\* getTileUrl on an engine whose _tileSize is size: the query parameters
\* that depend on the arguments (url and params are the same in every URL).
TileUrl(size, coord, zoom, lod) ==
  [bbox |-> xyzToBounds(coord.x, coord.y, zoom, size),
   width |-> String(Shl(size, lod)),
   height |-> String(Shl(size, lod))]

getTileUrl(coord, zoom, lod) == TileUrl(tileSize, coord, zoom, lod)

\* fetchTile: a new img whose src is getTileUrl(coord, zoom, lod); inUse are
\* the imgs the engine or a displayed div refers to.
fetchTile(zoom, coord, lod, inUse) ==
  [kind |-> "img", src |-> getTileUrl(coord, zoom, lod),
   n |-> LeastUnused({ i.n : i \in { o \in inUse : o.src = getTileUrl(coord, zoom, lod) } })]

\* The continuation of image.decode(): the closure's zoom, coord, lod and image.
Continuation(image, zoom, coord, lod) ==
  [image |-> image, zoom |-> zoom, coord |-> coord, lod |-> lod]

(* --------------------------- content assembler ------------------------- *)

\* A default bound of maxOversample itself.
ProxyBoundTight(difference, maxOv) ==
  IF difference = undefined \/ difference = 0 THEN maxOv ELSE difference

\* difference || maxOversample + 1: undefined and 0 are falsy.
ProxyBound(difference, maxOv) ==
  IF difference = undefined \/ difference = 0 THEN maxOv + 1 ELSE difference

\* A resolver that appends the in-flight image below the other layers.
FetchContentImageFirst(fromLarger, fromSmaller, image, zoom, coord, lod) ==
  [content |-> <<image, fromSmaller>> \o (IF fromLarger # null THEN <<fromLarger>> ELSE <<>>),
   started |-> {Continuation(image, zoom, coord, lod)}]

\* The last lines of createTileContent: the content returned and the
\* continuation registered on image.decode().
FetchContent(fromLarger, fromSmaller, image, zoom, coord, lod) ==
  [content |-> (IF fromLarger # null THEN <<fromLarger>> ELSE <<>>) \o <<fromSmaller, image>>,
   started |-> {Continuation(image, zoom, coord, lod)}]

\* An assembler that fetches even when the composite is complete.
AfterSmallerAlwaysFetching(fromLarger, smaller, zoom, coord, lod, inUse) ==
  [content |-> (IF fromLarger # null THEN <<fromLarger>> ELSE <<>>)
                 \o <<smaller[1], fetchTile(zoom, coord, lod, inUse)>>,
   started |-> {Continuation(fetchTile(zoom, coord, lod, inUse), zoom, coord, lod)}]

\* An assembler that starts no fetch while one for the same URL is in use.
AfterSmallerDeduplicating(fromLarger, smaller, zoom, coord, lod, inUse) ==
  IF smaller[2] THEN [content |-> <<smaller[1]>>, started |-> {}]
  ELSE IF \E i \in inUse : i.src = getTileUrl(coord, zoom, lod)
  THEN [content |-> (IF fromLarger # null THEN <<fromLarger>> ELSE <<>>) \o <<smaller[1]>>,
        started |-> {}]
  ELSE [content |-> (IF fromLarger # null THEN <<fromLarger>> ELSE <<>>)
                      \o <<smaller[1], fetchTile(zoom, coord, lod, inUse)>>,
        started |-> {Continuation(fetchTile(zoom, coord, lod, inUse), zoom, coord, lod)}]

AfterSmaller(fromLarger, smaller, zoom, coord, lod, inUse) ==
  IF smaller[2] THEN [content |-> <<smaller[1]>>, started |-> {}]
  ELSE FetchContent(fromLarger, smaller[1], fetchTile(zoom, coord, lod, inUse),
                    zoom, coord, lod)

\* An assembler without the early return on difference 0.
AfterLargerNoExactReturn(cache, maxOv, coord, zoom, lod, inUse, larger) ==
  AfterSmaller(larger[1],
               tileFromSmaller(cache, zoom, coord, lod, ProxyBound(larger[2], maxOv)),
               zoom, coord, lod, inUse)

AfterLarger(cache, maxOv, coord, zoom, lod, inUse, larger) ==
  IF larger[2] = 0 THEN [content |-> <<larger[1]>>, started |-> {}]
  ELSE AfterSmaller(larger[1],
                    tileFromSmaller(cache, zoom, coord, lod, ProxyBound(larger[2], maxOv)),
                    zoom, coord, lod, inUse)

\* content is the list returned; started holds the continuation registered
\* if fetchTile was called.
createTileContent(cache, maxOv, coord, zoom, lod, inUse) ==
  AfterLarger(cache, maxOv, coord, zoom, lod, inUse, tileFromLarger(cache, zoom, coord, lod))

\* A target LOD without the floor at 0.
TargetLodUnfloored(lodSetting, maxOv, zoom) == MinOf(lodSetting - zoom, maxOv)

\* Math.max(Math.min(levelOfDetail - zoom, maxOversample), 0)
TargetLod(lodSetting, maxOv, zoom) == MaxOf(MinOf(lodSetting - zoom, maxOv), 0)

CachedOrCreated(cache, maxOv, coord, zoom, lod, inUse) ==
  IF Lookup(cache, zoom, coord, lod) # null
  THEN [content |-> <<Lookup(cache, zoom, coord, lod)>>, started |-> {}]
  ELSE createTileContent(cache, maxOv, coord, zoom, lod, inUse)

getTileContent(cache, lodSetting, maxOv, coord, zoom, inUse) ==
  CachedOrCreated(cache, maxOv, coord, zoom, TargetLod(lodSetting, maxOv, zoom), inUse)

(* ------------------------------- state --------------------------------- *)

VARIABLES
  levelOfDetail,   \* this.levelOfDetail
  maxOversample,   \* this.maxOversample
  imageCache,      \* this.imageCache: populated key -> image
  activeTiles,     \* this.activeTiles: the Map's entries, in insertion order
  children,        \* the child list of every div in use
  pending,         \* decode() promises not yet settled, with their continuation
  orphaned,        \* history: pending imgs whose div was released meanwhile
  lastCall         \* the last call of one of the engine's functions on its own:
                   \* its name, its arguments and what it returned

vars == <<levelOfDetail, maxOversample, imageCache, activeTiles, children,
          pending, orphaned, lastCall>>

\* No function has been called on its own.
NoCall == [fn |-> "none"]

EmptyMap == [k \in {} |-> null]

Range(f) == { f[i] : i \in DOMAIN f }

Divs(tiles) == { e.div : e \in Range(tiles) }

(* ------------------------------ the DOM -------------------------------- *)

ImagesIn(content) ==
  { content[i] : i \in { j \in DOMAIN content :
                           content[j].kind = "img" /\ content[j].n # undefined } }

\* The imgs in use: those the cache, a pending decode or a displayed div holds.
ImagesInUse(cache, ch, pend) ==
  Range(cache) \cup { c.image : c \in pend }
    \cup UNION { ImagesIn(ch[d]) : d \in DOMAIN ch }

NewDiv(ch) == LeastUnused(DOMAIN ch)

\* A canvas as a child of a div: the pixels drawn into it are not kept.
Node(layer) ==
  IF layer.kind = "composite" THEN [kind |-> "composite", complete |-> layer.complete]
  ELSE IF layer.kind = "crop" THEN [kind |-> "crop"]
  ELSE layer

Without(list, elems) == SelectSeq(list, LAMBDA e : e \notin elems)

\* div.append(...content) on a new div and div.replaceChildren(...content):
\* the div's children become content, and a node that is inserted leaves the
\* parent it had (an element has one parent at a time).
SetChildren(ch, div, content) ==
  [d \in DOMAIN ch \cup {div} |->
     IF d = div THEN [i \in DOMAIN content |-> Node(content[i])]
     ELSE Without(ch[d], ImagesIn(content))]

\* An img that is neither cached nor pending can never enter the cache, so
\* getTileContent never returns it and it is never moved again: from then
\* on only its src tells it apart.
Spent(image) == [kind |-> "img", src |-> image.src, n |-> undefined]

Forget(ch, images) ==
  [d \in DOMAIN ch |->
     [i \in DOMAIN ch[d] |-> IF ch[d][i] \in images THEN Spent(ch[d][i]) ELSE ch[d][i]]]

\* (((imageCache[zoom] ??= [])[coord.y] ??= [])[coord.x] ??= [])[lod] = image
CacheWrite(cache, c) ==
  [k \in DOMAIN cache \cup {Key(c.zoom, c.coord, c.lod)} |->
     IF k = Key(c.zoom, c.coord, c.lod) THEN c.image ELSE cache[k]]

(* ------------------------------ operations ----------------------------- *)

Init ==
  /\ levelOfDetail \in Settings
  /\ maxOversample \in Settings
  /\ imageCache = EmptyMap
  /\ activeTiles = <<>>
  /\ children = EmptyMap
  /\ pending = {}
  /\ orphaned = {}
  /\ lastCall = NoCall

\* One getTileContent call, given the children and the pending decodes at
\* that point: the content it returns and the continuation it registers.
Call(p, ch, pend) ==
  getTileContent(imageCache, levelOfDetail, maxOversample, p.coord, p.zoom,
                 ImagesInUse(imageCache, ch, pend))

\* A getTile that stores the image it fetches at once.
GetTileIntoWritingCache(div, p, call) ==
  /\ Len(activeTiles) < MaxTiles
  /\ Cardinality(pending \cup call.started) <= MaxPending
  /\ children' = SetChildren(children, div, call.content)
  /\ activeTiles' = Append(activeTiles, [div |-> div, coord |-> p.coord, zoom |-> p.zoom])
  /\ pending' = pending \cup call.started
  /\ imageCache' = IF call.started = {} THEN imageCache
                   ELSE CacheWrite(imageCache, CHOOSE c \in call.started : TRUE)
  /\ UNCHANGED <<lastCall, levelOfDetail, maxOversample, orphaned>>

GetTileInto(div, p, call) ==
  /\ Len(activeTiles) < MaxTiles
  /\ Cardinality(pending \cup call.started) <= MaxPending
  /\ children' = SetChildren(children, div, call.content)
  /\ activeTiles' = Append(activeTiles, [div |-> div, coord |-> p.coord, zoom |-> p.zoom])
  /\ pending' = pending \cup call.started
  /\ UNCHANGED <<lastCall, levelOfDetail, maxOversample, imageCache, orphaned>>

getTile(p) == GetTileInto(NewDiv(children), p, Call(p, children, pending))

\* A releaseTile that evicts what the cache holds for the tile's cell.
releaseTileEvicting(tile) ==
  /\ tile \in Divs(activeTiles)
  /\ activeTiles' = SelectSeq(activeTiles, LAMBDA e : e.div # tile)
  /\ children' = [d \in DOMAIN children \ {tile} |-> children[d]]
  /\ orphaned' = orphaned \cup (ImagesIn(children[tile]) \cap { c.image : c \in pending })
  /\ imageCache' = [k \in { q \in DOMAIN imageCache :
                              \A e \in Range(activeTiles) :
                                e.div = tile => <<q[1], q[2], q[3]>> # <<e.zoom, e.coord.y, e.coord.x>> }
                      |-> imageCache[k]]
  /\ UNCHANGED <<lastCall, levelOfDetail, maxOversample, pending>>

\* A releaseTile that abandons the decodes of the imgs the div holds.
releaseTileCancelling(tile) ==
  /\ tile \in Divs(activeTiles)
  /\ activeTiles' = SelectSeq(activeTiles, LAMBDA e : e.div # tile)
  /\ children' = [d \in DOMAIN children \ {tile} |-> children[d]]
  /\ pending' = { c \in pending : c.image \notin ImagesIn(children[tile]) }
  /\ UNCHANGED <<lastCall, levelOfDetail, maxOversample, imageCache, orphaned>>

\* activeTiles.delete(tile); the map discards the div it releases.
releaseTile(tile) ==
  /\ tile \in Divs(activeTiles)
  /\ activeTiles' = SelectSeq(activeTiles, LAMBDA e : e.div # tile)
  /\ children' = [d \in DOMAIN children \ {tile} |-> children[d]]
  /\ orphaned' = orphaned \cup (ImagesIn(children[tile]) \cap { c.image : c \in pending })
  /\ UNCHANGED <<lastCall, levelOfDetail, maxOversample, imageCache, pending>>

\* div.replaceChildren(...getTileContent(...)) for one entry of the Map.
Refreshed(st, div, call) ==
  [children |-> SetChildren(st.children, div, call.content),
   pending |-> st.pending \cup call.started]

\* The loop of refreshTiles over the entries still to visit.
RECURSIVE RefreshLoop(_, _)
RefreshLoop(todo, st) ==
  IF todo = <<>> THEN st
  ELSE RefreshLoop(Tail(todo),
                   Refreshed(st, Head(todo).div,
                             Call(Head(todo), st.children, st.pending)))

RefreshTo(st) ==
  /\ activeTiles # <<>>
  /\ Cardinality(st.pending) <= MaxPending
  /\ children' = st.children
  /\ pending' = st.pending
  /\ UNCHANGED <<lastCall, levelOfDetail, maxOversample, imageCache, activeTiles, orphaned>>

refreshTiles ==
  RefreshTo(RefreshLoop(activeTiles, [children |-> children, pending |-> pending]))

\* A fulfilment that stores the image at the LOD the settings give now.
decodeFulfilledReclamping(c) ==
  /\ c \in pending
  /\ imageCache' = CacheWrite(imageCache,
                              [c EXCEPT !.lod = TargetLod(levelOfDetail, maxOversample,
                                                          c.zoom)])
  /\ pending' = pending \ {c}
  /\ orphaned' = orphaned \ {c.image}
  /\ children' = Forget(children, Range(imageCache) \ Range(imageCache'))
  /\ UNCHANGED <<lastCall, levelOfDetail, maxOversample, activeTiles>>

\* image.decode() fulfils: the continuation runs.
decodeFulfilled(c) ==
  /\ c \in pending
  /\ imageCache' = CacheWrite(imageCache, c)
  /\ pending' = pending \ {c}
  /\ orphaned' = orphaned \ {c.image}
  /\ children' = Forget(children, Range(imageCache) \ Range(imageCache'))
  /\ UNCHANGED <<lastCall, levelOfDetail, maxOversample, activeTiles>>

\* A rejection upon which the engine fetches the tile again.
decodeRejectedRetrying(c) ==
  /\ c \in pending
  /\ pending' = (pending \ {c})
                  \cup {Continuation(fetchTile(c.zoom, c.coord, c.lod,
                                               ImagesInUse(imageCache, children, pending)),
                                     c.zoom, c.coord, c.lod)}
  /\ orphaned' = orphaned \ {c.image}
  /\ children' = Forget(children, {c.image})
  /\ UNCHANGED <<lastCall, levelOfDetail, maxOversample, imageCache, activeTiles>>

\* image.decode() rejects: the continuation never runs.
decodeRejected(c) ==
  /\ c \in pending
  /\ pending' = pending \ {c}
  /\ orphaned' = orphaned \ {c.image}
  /\ children' = Forget(children, {c.image})
  /\ UNCHANGED <<lastCall, levelOfDetail, maxOversample, imageCache, activeTiles>>

\* The public fields levelOfDetail and maxOversample are assigned by the host.
setLevelOfDetail(v) ==
  /\ v # levelOfDetail
  /\ levelOfDetail' = v
  /\ UNCHANGED <<lastCall, maxOversample, imageCache, activeTiles, children, pending, orphaned>>

setMaxOversample(v) ==
  /\ v # maxOversample
  /\ maxOversample' = v
  /\ UNCHANGED <<lastCall, levelOfDetail, imageCache, activeTiles, children, pending, orphaned>>

Next ==
  \/ \E p \in TileParams : getTile(p)
  \/ \E tile \in Divs(activeTiles) : releaseTile(tile)
  \/ refreshTiles
  \/ \E c \in pending : decodeFulfilled(c)
  \/ \E c \in pending : decodeRejected(c)
  \/ \E v \in Settings : setLevelOfDetail(v)
  \/ \E v \in Settings : setMaxOversample(v)

Spec == Init /\ [][Next]_vars

(* ------------------------- an engine in mid-use ------------------------ *)

\* The cache after earlier requests whose decodes fulfilled and whose tiles
\* were released since: the keys given, each holding the img fetched for it.
CacheOf(keys) ==
  [k \in keys |-> [kind |-> "img", n |-> 0,
                   src |-> getTileUrl([x |-> k[3], y |-> k[2]], k[1], k[4])]]

\* The four cells of zoom z below the root's top-left corner, at LOD l.
Quad(z, l) == { <<z, cy, cx, l>> : cy \in 0..1, cx \in 0..1 }

\* levelOfDetail, maxOversample and the cache at the start: a new engine, one
\* whose cache holds the root's four children at the LOD one below the
\* root's, and one whose cache holds the four zoom-2 cells below the
\* requested zoom-1 tile at the LOD one below that tile's.
WarmStarts ==
  { <<l, m, EmptyMap>> : l \in Settings, m \in Settings }
    \cup { <<1, 1, CacheOf(Quad(1, 0))>>, <<2, 2, CacheOf(Quad(2, 0))>> }

WarmInit ==
  /\ \E w \in WarmStarts :
       /\ levelOfDetail = w[1]
       /\ maxOversample = w[2]
       /\ imageCache = w[3]
  /\ activeTiles = <<>>
  /\ children = EmptyMap
  /\ pending = {}
  /\ orphaned = {}
  /\ lastCall = NoCall

\* The host leaves levelOfDetail and maxOversample as they are.
NextSteady ==
  \/ \E p \in TileParams : getTile(p)
  \/ \E tile \in Divs(activeTiles) : releaseTile(tile)
  \/ refreshTiles
  \/ \E c \in pending : decodeFulfilled(c)
  \/ \E c \in pending : decodeRejected(c)

SpecWarm == WarmInit /\ [][NextSteady]_vars

(* --------------- the engine with fetches already in flight ------------- *)

\* The continuation of the fetch of the tile of key k, started on an
\* engine showing no other image of that URL.
InFlight(k) ==
  Continuation(fetchTile(k[1], [x |-> k[3], y |-> k[2]], k[4], {}),
               k[1], [x |-> k[3], y |-> k[2]], k[4])

\* levelOfDetail, maxOversample, the keys cached and the keys being fetched
\* at the start, the latter left from requests made under earlier settings
\* for tiles released since: the finer tiles that complete the root, or
\* its top-left child, or the root through that child, next to fetches of
\* the cells above and below at other LODs.
FlightStarts ==
  { <<1, 1, Quad(1, 0), { <<0, 0, 0, 0>>, <<0, 0, 0, 1>>, <<1, 0, 0, 1>> }>>,
    <<2, 1, Quad(2, 0), { <<0, 0, 0, 1>>, <<0, 0, 0, 2>>, <<2, 0, 0, 1>> }>>,
    <<2, 2, Quad(2, 0) \cup { <<1, 0, 1, 1>>, <<1, 1, 0, 1>>, <<1, 1, 1, 1>> },
      { <<1, 0, 0, 0>>, <<1, 0, 0, 2>>, <<0, 0, 0, 1>> }>> }

FlightInit ==
  /\ \E w \in FlightStarts :
       /\ levelOfDetail = w[1]
       /\ maxOversample = w[2]
       /\ imageCache = CacheOf(w[3])
       /\ pending \in { {} } \cup { { InFlight(a), InFlight(b) } : a \in w[4], b \in w[4] }
  /\ orphaned = { c.image : c \in pending }
  /\ activeTiles = <<>>
  /\ children = EmptyMap
  /\ lastCall = NoCall

SpecInFlight == FlightInit /\ [][NextSteady]_vars

(* ------------------- the engine's functions on their own --------------- *)

\* A cell's sparse LOD array with the indices lods populated.
MipmapOf(lods) == [l \in lods |-> CacheOf({<<0, 0, 0, l>>})[<<0, 0, 0, l>>]]

\* The arguments findNearestLod is called with: the LOD looked for, which
\* compositeFromSmaller lets fall below 0, and the optional bound.
TargetLods == (0 - 2)..(MaxLod + 1)
Betters == {undefined} \cup 0..(MaxLod + 2)

\* What a call returns does not depend on the calls made before it, so a
\* behaviour makes one call.
callFindNearestLod(lods, targetLod, betterThan) ==
  /\ lastCall = NoCall
  /\ lastCall' = [fn |-> "findNearestLod", mipmap |-> MipmapOf(lods),
                  targetLod |-> targetLod, betterThan |-> betterThan,
                  result |-> findNearestLod(MipmapOf(lods), targetLod, betterThan)]
  /\ UNCHANGED <<levelOfDetail, maxOversample, imageCache, activeTiles, children,
                 pending, orphaned>>

\* The _tileSize of the engine getTileUrl is called on.
TileSizes == {1, 255, tileSize, 257, 2 * tileSize}

\* The tiles of zoom 0..MaxZoom at the corners of the map.
CallTiles ==
  UNION { { [zoom |-> z, coord |-> [x |-> cx, y |-> cy]] :
              cx \in {0, Pow2(z) - 1}, cy \in {0, Pow2(z) - 1} } : z \in 0..MaxZoom }

callGetTileUrl(size, p, lod) ==
  /\ lastCall = NoCall
  /\ lastCall' = [fn |-> "getTileUrl", tileSize |-> size, coord |-> p.coord,
                  zoom |-> p.zoom, lod |-> lod,
                  result |-> TileUrl(size, p.coord, p.zoom, lod)]
  /\ UNCHANGED <<levelOfDetail, maxOversample, imageCache, activeTiles, children,
                 pending, orphaned>>

\* getTileContent, called as getTile and refreshTiles call it, with what it
\* returns and the decode continuation it registers.
callGetTileContent(p) ==
  /\ lastCall = NoCall
  /\ lastCall' = [fn |-> "getTileContent", coord |-> p.coord, zoom |-> p.zoom,
                  result |-> Call(p, children, pending)]
  /\ UNCHANGED <<levelOfDetail, maxOversample, imageCache, activeTiles, children,
                 pending, orphaned>>

\* The rectangles split: every width and height of 0..MaxSide and some
\* around tileSize, at the origin and away from it.
SplitRects ==
  { [x |-> o[1], y |-> o[2], w |-> d[1], h |-> d[2]] :
      o \in { <<0, 0>>, <<3, 7>> },
      d \in ((0..MaxSide) \X (0..MaxSide))
              \cup { <<tileSize, tileSize>>, <<tileSize + 1, tileSize + 1>>,
                     <<tileSize - 1, tileSize + 1>> } }

\* The two loops of compositeFromSmaller over j and i, as far as cd goes:
\* the destination rectangle of each quadrant <<i, j>>.
splitRect(drect) ==
  /\ lastCall = NoCall
  /\ lastCall' = [fn |-> "cd", drect |-> drect,
                  result |-> [q \in (0..1) \X (0..1) |-> ChildRect(drect, q[1], q[2])]]
  /\ UNCHANGED <<levelOfDetail, maxOversample, imageCache, activeTiles, children,
                 pending, orphaned>>

\* The functions that do not read the cache, and getTileContent, on a new engine.
NextCalls ==
  \/ \E lods \in SUBSET (0..MaxLod), targetLod \in TargetLods, betterThan \in Betters :
       callFindNearestLod(lods, targetLod, betterThan)
  \/ \E size \in TileSizes, p \in CallTiles, lod \in 0..MaxLod : callGetTileUrl(size, p, lod)
  \/ \E p \in CallTiles : callGetTileContent(p)
  \/ \E drect \in SplitRects : splitRect(drect)

SpecCalls == Init /\ [][NextCalls]_vars

(* ------------------- the engine's methods on a filled cache ------------ *)

\* The cells the caches hold entries for: the root, the four cells of zoom
\* 1, the four cells of zoom 2 below the top-left one and the bottom-right
\* cell of zoom 2.
QueryCells ==
  { <<0, 0, 0>> } \cup { <<1, cy, cx>> : cy \in 0..1, cx \in 0..1 }
    \cup { <<2, cy, cx>> : cy \in 0..1, cx \in 0..1 } \cup { <<2, 3, 3>> }

QueryKeys == { <<c[1], c[2], c[3], l>> : c \in QueryCells, l \in 0..MaxLod }

\* The keys of the bottom-right cell of zoom 2 and of the cells above it.
ChainKeys == { k \in QueryKeys : k[2] = Pow2(k[1]) - 1 /\ k[3] = Pow2(k[1]) - 1 }

\* The sets of keys populated before the call: up to two keys, up to three
\* keys of one chain of ancestors, and the four cells below the root or
\* below the top-left cell of zoom 1 at one LOD next to at most one more key,
\* and the four cells below the top-left cell of zoom 1 next to its three
\* siblings at the LOD above.
QueryKeySets ==
  { {} } \cup { {a, b} : a \in QueryKeys, b \in QueryKeys }
    \cup { {a, b, c} : a \in ChainKeys, b \in ChainKeys, c \in ChainKeys }
    \cup { Quad(z, l) : z \in 1..2, l \in 0..MaxLod }
    \cup { Quad(z, l) \cup {a} : z \in 1..2, l \in 0..MaxLod, a \in QueryKeys }
    \cup { Quad(2, l) \cup { <<1, 0, 1, l + 1>>, <<1, 1, 0, l + 1>>, <<1, 1, 1, l + 1>> } :
            l \in 0..(MaxLod - 1) }

QueryInit ==
  /\ levelOfDetail = 0
  /\ maxOversample \in Settings
  /\ imageCache \in { CacheOf(K) : K \in QueryKeySets }
  /\ activeTiles = <<>>
  /\ children = EmptyMap
  /\ pending = {}
  /\ orphaned = {}
  /\ lastCall = NoCall

callTileFromLarger(p, lod) ==
  /\ lastCall = NoCall
  /\ lastCall' = [fn |-> "tileFromLarger", zoom |-> p.zoom, coord |-> p.coord, lod |-> lod,
                  result |-> tileFromLarger(imageCache, p.zoom, p.coord, lod)]
  /\ UNCHANGED <<levelOfDetail, maxOversample, imageCache, activeTiles, children,
                 pending, orphaned>>

\* The cells whose quadrants are composited: the root and two cells of zoom 1.
CompositeTiles ==
  { [coord |-> [x |-> 0, y |-> 0], zoom |-> 0],
    [coord |-> [x |-> 0, y |-> 0], zoom |-> 1],
    [coord |-> [x |-> 1, y |-> 1], zoom |-> 1] }

\* The LODs and the bounds compositeFromSmaller is called with: the LOD
\* below the one asked for, down to where the cut-off is met at once.
CompositeLods == (0 - 2)..(MaxLod - 2)
CompositeBounds == 0..(MaxLod - 1)

\* compositeFromSmaller as tileFromSmaller calls it: over the whole canvas
\* of a tile, on the zoom below the tile's.
callCompositeFromSmaller(p, lod, proxyBetterThan) ==
  /\ lastCall = NoCall
  /\ lastCall' = [fn |-> "compositeFromSmaller", coord |-> p.coord, zoom |-> p.zoom + 1,
                  lod |-> lod, proxyBetterThan |-> proxyBetterThan,
                  result |-> compositeFromSmaller(
                               imageCache, p.coord,
                               [x |-> 0, y |-> 0, w |-> tileSize, h |-> tileSize],
                               p.zoom + 1, lod, proxyBetterThan)]
  /\ UNCHANGED <<levelOfDetail, maxOversample, imageCache, activeTiles, children,
                 pending, orphaned>>

\* What a call of createTileContent leaves behind: the list returned and
\* the decode continuation registered, if any.
CreateCall(p, lod, r) ==
  [fn |-> "createTileContent", coord |-> p.coord, zoom |-> p.zoom, lod |-> lod,
   result |-> r.content, started |-> r.started]

\* createTileContent as getTileContent calls it after a miss: with an LOD
\* of 0..maxOversample.
callCreateTileContent(p, lod) ==
  /\ lastCall = NoCall
  /\ lod <= maxOversample
  /\ lastCall' = CreateCall(p, lod,
                            createTileContent(imageCache, maxOversample, p.coord, p.zoom,
                                              lod, ImagesInUse(imageCache, children,
                                                               pending)))
  /\ UNCHANGED <<levelOfDetail, maxOversample, imageCache, activeTiles, children,
                 pending, orphaned>>

NextQueries ==
  \/ \E p \in CallTiles, lod \in 0..MaxLod : callTileFromLarger(p, lod)
  \/ \E p \in CompositeTiles, lod \in CompositeLods, b \in CompositeBounds :
       callCompositeFromSmaller(p, lod, b)
  \/ \E p \in CompositeTiles, lod \in Settings : callCreateTileContent(p, lod)

SpecQueries == QueryInit /\ [][NextQueries]_vars

(* ------------------------------ properties ----------------------------- *)

Clamp(v, lo, hi) == IF v < lo THEN lo ELSE IF v > hi THEN hi ELSE v

\* The LOD and the key a request for tile p is served at.
ExactLod(p) == Clamp(levelOfDetail - p.zoom, 0, maxOversample)
ExactKey(p) == <<p.zoom, p.coord.y, p.coord.x, ExactLod(p)>>
Miss(p) == ExactKey(p) \notin DOMAIN imageCache

\* The key a continuation writes.
KeyOf(c) == <<c.zoom, c.coord.y, c.coord.x, c.lod>>

\* The request a registry entry was made with.
TileOf(e) == [zoom |-> e.zoom, coord |-> e.coord]

\* The entry getTile has just added, and its div.
NewestEntry == activeTiles'[Len(activeTiles')]
NewestDiv == NewestEntry.div

\* The cell k levels above p, at the LOD that shows the same pixels.
AncestorKey(p, k) ==
  <<p.zoom - k, p.coord.y \div (2 ^ k), p.coord.x \div (2 ^ k), ExactLod(p) + k>>

AncestorExact(p) == \E k \in 0..p.zoom : AncestorKey(p, k) \in DOMAIN imageCache

\* Every cell below (zoom, y, x) holds an entry at the LOD that shows the
\* pixels of LOD lod of that cell, or is itself covered that way.
RECURSIVE Covered(_, _, _, _)
Covered(zoom, y, x, lod) ==
  /\ lod >= 1
  /\ \A i \in 0..1, j \in 0..1 :
       \/ <<zoom + 1, 2 * y + j, 2 * x + i, lod - 1>> \in DOMAIN imageCache
       \/ Covered(zoom + 1, 2 * y + j, 2 * x + i, lod - 1)

CoveredBySmaller(p) == Covered(p.zoom, p.coord.y, p.coord.x, ExactLod(p))

\* A request that neither the cache, an ancestor nor the finer tiles resolve.
NeedsFetch(p) == Miss(p) /\ ~AncestorExact(p) /\ ~CoveredBySmaller(p)

\* The kinds of the layers of a list, and the completeness of its composites.
Shape(list) ==
  [i \in DOMAIN list |->
     IF list[i].kind = "composite" THEN <<"composite", list[i].complete>>
     ELSE <<list[i].kind>>]

Last(list) == list[Len(list)]

\* C1.  Exact hit and visibility: when the cache holds an image at the key
\* <<zoom, y, x, clamp(levelOfDetail - zoom, 0, maxOversample)>>, a request
\* for (coord, zoom) returns that image as its only layer and starts no
\* fetch, so a getTile for it puts exactly the cached image into the new div
\* and leaves the pending decodes and the cache as they were; and in the
\* state a fulfilled decode leaves, every request served at the key it
\* wrote is such a hit on the image written.
C1_ExactHit ==
  [][ /\ \A p \in TileParams :
           ~Miss(p) =>
             Call(p, children, pending)
               = [content |-> <<imageCache[ExactKey(p)]>>, started |-> {}]
      /\ \A p \in TileParams :
           (~Miss(p) /\ getTile(p)) =>
             /\ children'[NewestDiv] = <<imageCache[ExactKey(p)]>>
             /\ pending' = pending
             /\ imageCache' = imageCache
      /\ \A c \in pending :
           decodeFulfilled(c) =>
             \A p \in TileParams :
               ExactKey(p) = KeyOf(c) =>
                 getTileContent(imageCache', levelOfDetail, maxOversample,
                                p.coord, p.zoom, {})
                   = [content |-> <<c.image>>, started |-> {}]
    ]_vars

\* C1 witness: a displayed tile whose key is cached shows exactly the cached image.
C1_HitDisplayed ==
  \E e \in Range(activeTiles) :
    /\ ~Miss(TileOf(e))
    /\ children[e.div] = <<imageCache[ExactKey(TileOf(e))]>>

\* C2.  Write-once cache: the image stored at a populated key never changes.
C2_WriteOnce ==
  [][ \A k \in DOMAIN imageCache :
        k \in DOMAIN imageCache' /\ imageCache'[k] = imageCache[k] ]_vars

\* C3 as stated.  Fetch on every miss: every getTile whose exact key is not
\* cached registers a decode continuation for that key.
C3_FetchOnEveryMiss ==
  [][ \A p \in TileParams :
        (Miss(p) /\ getTile(p)) =>
          \E c \in pending' \ pending : KeyOf(c) = ExactKey(p) ]_vars

\* C3 amended.  A getTile whose exact key is not cached starts a fetch of
\* the exact tile, shown as the top layer, unless an ancestor cell holds the
\* exact-equivalent entry or the finer tiles cover the tile completely, in
\* which two cases it starts none; a fulfilled decode writes its image at
\* the key of the request that started it.
C3_FetchUnlessResolved ==
  [][ /\ \A p \in TileParams :
           (Miss(p) /\ getTile(p)) =>
             IF AncestorExact(p) \/ CoveredBySmaller(p)
             THEN pending' = pending
             ELSE \E c \in pending' \ pending :
                    /\ pending' = pending \cup {c}
                    /\ KeyOf(c) = ExactKey(p)
                    /\ c.image.src = getTileUrl(p.coord, p.zoom, ExactLod(p))
                    /\ Last(children'[NewestDiv]) = c.image
      /\ \A c \in pending :
           decodeFulfilled(c) =>
             /\ KeyOf(c) \in DOMAIN imageCache'
             /\ imageCache'[KeyOf(c)] = c.image
    ]_vars

\* C3 witness: a displayed tile whose fetched top layer has been written to
\* the cache at the tile's key, next to a tile resolved by an ancestor with
\* no fetch.
C3_FetchedAndWritten ==
  /\ \E e \in Range(activeTiles) :
       /\ Len(children[e.div]) >= 2
       /\ Last(children[e.div]).kind = "img"
       /\ ~Miss(TileOf(e))
       /\ imageCache[ExactKey(TileOf(e))] = Last(children[e.div])
  /\ \E e \in Range(activeTiles) :
       /\ Miss(TileOf(e))
       /\ AncestorExact(TileOf(e))
       /\ children[e.div] = <<[kind |-> "crop"]>>

\* C4.  Single-layer outcomes on an exact miss: when some ancestor cell
\* holds the exact-equivalent entry the request returns one layer, the crop
\* of the nearest such ancestor's image, whether or not the finer tiles
\* cover the tile; otherwise, when the finer tiles cover it, the request
\* returns the complete composite alone; in both cases no fetch is started
\* and the getTile step leaves the cache and the pending decodes unchanged.
C4_SingleLayer ==
  [][ /\ \A p \in TileParams :
           (Miss(p) /\ AncestorExact(p)) =>
             \E k \in 1..p.zoom :
               /\ AncestorKey(p, k) \in DOMAIN imageCache
               /\ \A j \in 1..(k - 1) : AncestorKey(p, j) \notin DOMAIN imageCache
               /\ Len(Call(p, children, pending).content) = 1
               /\ Call(p, children, pending).content[1].kind = "crop"
               /\ Call(p, children, pending).content[1].image = imageCache[AncestorKey(p, k)]
               /\ Call(p, children, pending).content[1].levelsAbove = k
               /\ Call(p, children, pending).started = {}
      /\ \A p \in TileParams :
           (Miss(p) /\ ~AncestorExact(p) /\ CoveredBySmaller(p)) =>
             /\ Shape(Call(p, children, pending).content) = << <<"composite", TRUE>> >>
             /\ Call(p, children, pending).started = {}
      /\ \A p \in TileParams :
           (Miss(p) /\ (AncestorExact(p) \/ CoveredBySmaller(p)) /\ getTile(p)) =>
             /\ children'[NewestDiv]
                  = IF AncestorExact(p) THEN <<[kind |-> "crop"]>>
                    ELSE <<[kind |-> "composite", complete |-> TRUE]>>
             /\ pending' = pending
             /\ imageCache' = imageCache
    ]_vars

\* C4 witness: one displayed tile shows a complete composite alone, another,
\* resolvable both by an ancestor and by the finer tiles, shows the crop alone.
C4_CropOverComposite ==
  /\ \E e \in Range(activeTiles) :
       children[e.div] = <<[kind |-> "composite", complete |-> TRUE]>>
  /\ \E e \in Range(activeTiles) :
       /\ Miss(TileOf(e))
       /\ AncestorExact(TileOf(e))
       /\ CoveredBySmaller(TileOf(e))
       /\ children[e.div] = <<[kind |-> "crop"]>>

LayerKinds(content) == [i \in DOMAIN content |-> content[i].kind]

\* The top layer of r is the one image r started a fetch for, a new one.
InFlightLast(r) ==
  \E c \in r.started :
    /\ r.started = {c}
    /\ Last(r.content) = c.image
    /\ c.image \notin Range(imageCache)
    /\ c.image \notin { o.image : o \in pending }

ShapeOk(r) ==
  \/ /\ LayerKinds(r.content) = <<"img">>
     /\ r.content[1] \in Range(imageCache)
     /\ r.started = {}
  \/ /\ LayerKinds(r.content) \in { <<"crop">>, <<"composite">> }
     /\ r.started = {}
  \/ /\ LayerKinds(r.content) \in { <<"composite", "img">>, <<"crop", "composite", "img">> }
     /\ InFlightLast(r)

BlankAndInFlight(r) ==
  /\ LayerKinds(r.content) = <<"composite", "img">>
  /\ ~r.content[1].complete
  /\ r.content[1].draws = <<>>
  /\ Cardinality(r.started) = 1

ResultOk(r) == ShapeOk(r) /\ (imageCache = EmptyMap => BlankAndInFlight(r))

\* C5.  Result shape: in every state every request returns one of [cached
\* image], [ancestor crop], [composite], [composite, in-flight image] or
\* [ancestor crop, composite, in-flight image], the in-flight image being
\* the one fetch started; with an empty cache it returns a composite with
\* nothing drawn, reported incomplete, below the in-flight image of the one
\* fetch started.
C5_ResultShape == \A p \in TileParams : ResultOk(Call(p, children, pending))

\* C5 witness: one displayed tile holds a composite below an img, another a
\* crop, a composite and on top an img whose decode is in flight.
C5_ThreeLayers ==
  /\ \E e \in Range(activeTiles) :
       Shape(children[e.div]) = << <<"composite", FALSE>>, <<"img">> >>
  /\ \E e \in Range(activeTiles) :
       /\ Shape(children[e.div]) = << <<"crop">>, <<"composite", FALSE>>, <<"img">> >>
       /\ Last(children[e.div]) \in { c.image : c \in pending }

\* C6.  Idempotence: across every step that leaves the cache, levelOfDetail
\* and maxOversample unchanged, every request returns layers of the same
\* number, kinds and completeness on the divs and pending decodes before
\* the step and on those after it; in particular the request a getTile has
\* just made returns, made again, what the new div shows; and neither
\* getTile nor refreshTiles writes the cache.
C6_Idempotent ==
  [][ /\ (imageCache' = imageCache /\ levelOfDetail' = levelOfDetail
            /\ maxOversample' = maxOversample) =>
           \A p \in TileParams :
             Shape(Call(p, children', pending').content)
               = Shape(Call(p, children, pending).content)
      /\ \A p \in TileParams :
           getTile(p) =>
             /\ imageCache' = imageCache
             /\ Shape(children'[NewestDiv]) = Shape(Call(p, children, pending).content)
             /\ Shape(Call(p, children', pending').content) = Shape(children'[NewestDiv])
      /\ refreshTiles => imageCache' = imageCache
    ]_vars

\* C6 witness: two displayed tiles of the same request, made with no decode
\* settled in between, show the same layers, each below its own in-flight img.
C6_SameTwice ==
  \E i \in DOMAIN activeTiles, j \in DOMAIN activeTiles :
    /\ i < j
    /\ TileOf(activeTiles[i]) = TileOf(activeTiles[j])
    /\ Len(children[activeTiles[i].div]) >= 2
    /\ Shape(children[activeTiles[i].div]) = Shape(children[activeTiles[j].div])
    /\ Last(children[activeTiles[i].div]) \in { c.image : c \in pending }
    /\ Last(children[activeTiles[j].div]) \in { c.image : c \in pending }
    /\ Last(children[activeTiles[i].div]) # Last(children[activeTiles[j].div])

\* C7.  Cache never shrinks: every step keeps every populated key populated,
\* and releaseTile leaves the cache exactly as it was.
C7_CacheNeverShrinks ==
  [][ /\ DOMAIN imageCache \subseteq DOMAIN imageCache'
      /\ \A tile \in Divs(activeTiles) : releaseTile(tile) => imageCache' = imageCache
    ]_vars

\* C7 witness: every tile has been released and the cache still holds the
\* image fetched for one of them.
C7_CachedAfterRelease ==
  /\ activeTiles = <<>>
  /\ children = EmptyMap
  /\ imageCache # EmptyMap

\* C8.  Release does not cancel: releaseTile leaves every pending decode
\* pending, and when the decode of an img whose div was released fulfils,
\* the img is written at the key of its request, so that a request served
\* at that key returns exactly that img and starts no fetch.
C8_ReleaseDoesNotCancel ==
  [][ /\ \A tile \in Divs(activeTiles) : releaseTile(tile) => pending' = pending
      /\ \A c \in pending :
           (c.image \in orphaned /\ decodeFulfilled(c)) =>
             /\ imageCache' = [k \in DOMAIN imageCache \cup {KeyOf(c)} |->
                                 IF k = KeyOf(c) THEN c.image ELSE imageCache[k]]
             /\ CachedOrCreated(imageCache', maxOversample, c.coord, c.zoom, c.lod, {})
                  = [content |-> <<c.image>>, started |-> {}]
    ]_vars

\* C8 witness: a decode is in flight for an img whose div has been released
\* and that no displayed div holds.
C8_ReleasedStillInFlight ==
  \E c \in pending :
    /\ c.image \in orphaned
    /\ \A d \in DOMAIN children : c.image \notin Range(children[d])

\* The registered tiles a refresh has to fetch for.
FetchingEntries == { i \in DOMAIN activeTiles : NeedsFetch(TileOf(activeTiles[i])) }

\* C9.  No deduplication, harmless race: a getTile for an unresolvable tile
\* registers one more decode, of a new img, whatever is already in flight,
\* and refreshTiles registers one for every unresolvable registered tile;
\* a fulfilled decode populates its key and changes no other key; and for
\* two pending decodes of the same key both orders of fulfilment leave the
\* same keys populated, the shared key among them, and every other entry
\* as it was.
C9_HarmlessRace ==
  [][ /\ \A p \in TileParams :
           (NeedsFetch(p) /\ getTile(p)) =>
             /\ Cardinality(pending') = Cardinality(pending) + 1
             /\ \E c \in pending' \ pending :
                  /\ KeyOf(c) = ExactKey(p)
                  /\ \A o \in pending : o.image # c.image
      /\ refreshTiles =>
           /\ pending \subseteq pending'
           /\ Cardinality(pending' \ pending) = Cardinality(FetchingEntries)
           /\ \A c \in pending' \ pending :
                \E i \in FetchingEntries : KeyOf(c) = ExactKey(TileOf(activeTiles[i]))
      /\ \A c \in pending :
           decodeFulfilled(c) =>
             /\ DOMAIN imageCache' = DOMAIN imageCache \cup {KeyOf(c)}
             /\ \A k \in DOMAIN imageCache \ {KeyOf(c)} : imageCache'[k] = imageCache[k]
      /\ \A c1 \in pending, c2 \in pending :
           (c1 # c2 /\ KeyOf(c1) = KeyOf(c2)) =>
             /\ DOMAIN CacheWrite(CacheWrite(imageCache, c1), c2)
                  = DOMAIN CacheWrite(CacheWrite(imageCache, c2), c1)
             /\ KeyOf(c1) \in DOMAIN CacheWrite(CacheWrite(imageCache, c1), c2)
             /\ \A k \in DOMAIN imageCache \ {KeyOf(c1)} :
                  /\ CacheWrite(CacheWrite(imageCache, c1), c2)[k] = imageCache[k]
                  /\ CacheWrite(CacheWrite(imageCache, c2), c1)[k] = imageCache[k]
    ]_vars

\* C9 witness: two decodes are in flight for the same key, each with its own img.
C9_TwoInFlight ==
  \E c1 \in pending, c2 \in pending :
    /\ c1.image # c2.image
    /\ KeyOf(c1) = KeyOf(c2)

\* C10.  Registry and refresh: the registry holds exactly the divs getTile
\* returned and releaseTile has not been given, each with the coord and zoom
\* of its request; refreshTiles leaves the registry and the set of divs as
\* they are and leaves every registered div showing what a request for its
\* coord and zoom returns on the current cache and configuration.
C10_RegistryAndRefresh ==
  [][ /\ DOMAIN children = Divs(activeTiles)
      /\ \A p \in TileParams :
           getTile(p) =>
             /\ NewestDiv \notin Divs(activeTiles)
             /\ activeTiles' = Append(activeTiles,
                                      [div |-> NewestDiv, coord |-> p.coord, zoom |-> p.zoom])
      /\ \A tile \in Divs(activeTiles) :
           releaseTile(tile) =>
             Range(activeTiles') = { e \in Range(activeTiles) : e.div # tile }
      /\ refreshTiles =>
           /\ activeTiles' = activeTiles
           /\ DOMAIN children' = DOMAIN children
           /\ \A e \in Range(activeTiles) :
                Shape(children'[e.div]) = Shape(Call(TileOf(e), children, pending).content)
    ]_vars

\* C11.  Fetch failure is absorbed: a rejected decode leaves the cache and
\* the registry as they were, leaves every div with the layers it had,
\* starts no fetch and never gets its img cached; the cache changes only
\* when a decode fulfils, so a decode that never settles changes nothing;
\* and fetches are started only by requests that neither the cache, an
\* ancestor nor the finer tiles resolve, one by each: one by such a getTile,
\* one per such registered tile by refreshTiles, none by any other step.
C11_FailureAbsorbed ==
  [][ /\ \A c \in pending :
           decodeRejected(c) =>
             /\ imageCache' = imageCache
             /\ activeTiles' = activeTiles
             /\ pending' = pending \ {c}
             /\ c.image \notin Range(imageCache')
             /\ DOMAIN children' = DOMAIN children
             /\ \A d \in DOMAIN children : Shape(children'[d]) = Shape(children[d])
      /\ imageCache' # imageCache => \E c \in pending : decodeFulfilled(c)
      /\ \A p \in TileParams :
           getTile(p) =>
             /\ pending \subseteq pending'
             /\ Cardinality(pending' \ pending) = IF NeedsFetch(p) THEN 1 ELSE 0
      /\ refreshTiles =>
           /\ pending \subseteq pending'
           /\ Cardinality(pending' \ pending) = Cardinality(FetchingEntries)
      /\ (activeTiles' = activeTiles /\ children' = children) => pending' \subseteq pending
      /\ Len(activeTiles') < Len(activeTiles) => pending' \subseteq pending
    ]_vars

\* C11 witness: with an empty cache and no decode in flight a displayed
\* tile still shows, on top, the img whose decode was rejected.
C11_RejectedShown ==
  /\ imageCache = EmptyMap
  /\ pending = {}
  /\ \E e \in Range(activeTiles) :
       /\ Len(children[e.div]) >= 2
       /\ Last(children[e.div]).kind = "img"
       /\ Last(children[e.div]).n = undefined

\* The indices of mipmap whose difference from targetLod is below the bound.
Eligible(mipmap, targetLod, betterThan) ==
  { l \in DOMAIN mipmap :
      betterThan = undefined
        \/ (IF l < targetLod THEN targetLod - l ELSE l - targetLod) < betterThan }

\* No eligible index is nearer to targetLod than l, and none as near is smaller.
Nearest(S, targetLod, l) ==
  \A o \in S :
    \/ (IF o < targetLod THEN targetLod - o ELSE o - targetLod)
         > (IF l < targetLod THEN targetLod - l ELSE l - targetLod)
    \/ /\ (IF o < targetLod THEN targetLod - o ELSE o - targetLod)
            = (IF l < targetLod THEN targetLod - l ELSE l - targetLod)
       /\ l <= o

FoundNearest(mipmap, targetLod, betterThan, result) ==
  IF Eligible(mipmap, targetLod, betterThan) = {}
  THEN result = <<null, betterThan>>
  ELSE \E l \in Eligible(mipmap, targetLod, betterThan) :
         /\ Nearest(Eligible(mipmap, targetLod, betterThan), targetLod, l)
         /\ result[1] = mipmap[l]
         /\ result[2] = IF l < targetLod THEN targetLod - l ELSE l - targetLod

\* C13.  Mipmap search: findNearestLod returns the entry nearest to
\* targetLod among those whose difference is strictly below betterThan (all
\* entries without a bound), the smallest LOD among equally near ones, and
\* its difference; with no such entry it returns no image and betterThan.
C13_MipmapSearch ==
  lastCall.fn = "findNearestLod" =>
    FoundNearest(lastCall.mipmap, lastCall.targetLod, lastCall.betterThan, lastCall.result)

\* C13 witness: on the mipmap with entries at LODs 0 and 3 the search for
\* LOD 2 without a bound has returned the entry at 3 with difference 1.
C13_NearerOfTwo ==
  /\ lastCall.fn = "findNearestLod"
  /\ DOMAIN lastCall.mipmap = {0, 3}
  /\ lastCall.targetLod = 2
  /\ lastCall.betterThan = undefined
  /\ lastCall.result = <<lastCall.mipmap[3], 1>>

\* The number a string of decimal digits denotes.
RECURSIVE Decimal(_)
Decimal(digits) ==
  IF digits = <<>> THEN 0
  ELSE 10 * Decimal(SubSeq(digits, 1, Len(digits) - 1)) + digits[Len(digits)]

\* A string of decimal digits without a leading zero, denoting number.
Denotes(digits, number) ==
  /\ Len(digits) >= 1
  /\ \A i \in DOMAIN digits : digits[i] \in 0..9
  /\ Len(digits) > 1 => digits[1] # 0
  /\ Decimal(digits) = number

\* C12.  Requested image size: the width and height parameters of the URL
\* getTileUrl(coord, zoom, lod) builds both denote tileSize * 2^lod (the
\* string "256" for the default tileSize at LOD 0), and the img a
\* getTileContent call starts to fetch asks for the size of the LOD at
\* which its decode continuation stores it.
C12_RequestedSize ==
  /\ lastCall.fn = "getTileUrl" =>
       /\ Denotes(lastCall.result.width, lastCall.tileSize * (2 ^ lastCall.lod))
       /\ Denotes(lastCall.result.height, lastCall.tileSize * (2 ^ lastCall.lod))
       /\ (lastCall.tileSize = 256 /\ lastCall.lod = 0) =>
            /\ lastCall.result.width = <<2, 5, 6>>
            /\ lastCall.result.height = <<2, 5, 6>>
  /\ lastCall.fn = "getTileContent" =>
       \A c \in lastCall.result.started :
         /\ c.coord = lastCall.coord
         /\ c.zoom = lastCall.zoom
         /\ Denotes(c.image.src.width, 256 * (2 ^ c.lod))
         /\ Denotes(c.image.src.height, 256 * (2 ^ c.lod))
         /\ c.image.src.bbox = lastCall.result.content[Len(lastCall.result.content)].src.bbox
         /\ \E k \in DOMAIN CacheWrite(imageCache, c) :
              /\ k = <<c.zoom, c.coord.y, c.coord.x, c.lod>>
              /\ CacheWrite(imageCache, c)[k] = c.image

\* C12 witness: getTileUrl has been called for the default tileSize at
\* LOD 1 and has built a URL with width and height "512".
C12_DoubleSize ==
  /\ lastCall.fn = "getTileUrl"
  /\ lastCall.tileSize = 256
  /\ lastCall.lod = 1
  /\ lastCall.result.width = <<5, 1, 2>>
  /\ lastCall.result.height = <<5, 1, 2>>

\* The populated entries of the cells at and above the tile of the last
\* call, each as <<levels above, LOD>>.
ChainEntries ==
  { e \in (0..lastCall.zoom) \X { q[4] : q \in DOMAIN imageCache } :
      <<lastCall.zoom - e[1], lastCall.coord.y \div (2 ^ e[1]),
        lastCall.coord.x \div (2 ^ e[1]), e[2]>> \in DOMAIN imageCache }

\* How far the entry e is from showing the pixels of the LOD asked for.
ChainDifference(e) ==
  IF e[2] < lastCall.lod + e[1] THEN lastCall.lod + e[1] - e[2]
  ELSE e[2] - (lastCall.lod + e[1])

\* No entry is nearer than e, none as near is at a closer zoom, and none as
\* near at the same zoom has a smaller LOD.
ChainBest(e) ==
  \A o \in ChainEntries :
    \/ ChainDifference(o) > ChainDifference(e)
    \/ /\ ChainDifference(o) = ChainDifference(e)
       /\ (e[1] < o[1] \/ (e[1] = o[1] /\ e[2] <= o[2]))

\* C14.  Larger-tile resolver selection: tileFromLarger returns the least
\* difference |l - (lod + k)| over the populated entries of the cells
\* (zoom - k, y >> k, x >> k), k = 0..zoom, and the crop of the entry
\* attaining it at the smallest k, and at the smallest l within that k;
\* entries of other cells do not count; and it returns no canvas and an
\* undefined difference exactly when those cells hold no entry.
C14_LargerSelection ==
  lastCall.fn = "tileFromLarger" =>
    IF ChainEntries = {}
    THEN lastCall.result = <<null, undefined>>
    ELSE /\ lastCall.result[1] # null
         /\ \E e \in ChainEntries :
              /\ ChainBest(e)
              /\ lastCall.result[2] = ChainDifference(e)
              /\ lastCall.result[1].levelsAbove = e[1]
              /\ lastCall.result[1].image
                   = imageCache[<<lastCall.zoom - e[1], lastCall.coord.y \div (2 ^ e[1]),
                                  lastCall.coord.x \div (2 ^ e[1]), e[2]>>]

\* C14 witness: two ancestors at different zooms are equally near, while
\* a cell off the chain holds an entry, and the crop is of the closer one.
C14_CloserOnTie ==
  /\ lastCall.fn = "tileFromLarger"
  /\ lastCall.coord.x > 0
  /\ \E e1 \in ChainEntries, e2 \in ChainEntries :
       /\ e1[1] < e2[1]
       /\ ChainDifference(e1) = ChainDifference(e2)
       /\ lastCall.result[2] = ChainDifference(e1)
       /\ lastCall.result[1].levelsAbove = e1[1]
  /\ Cardinality(DOMAIN imageCache) > Cardinality(ChainEntries)

\* The image is drawn at offset with side ds so that the canvas, of side
\* 256, shows the part of it that belongs to tile number t of the 2^k tiles
\* the image spans on this axis.
WindowOf(offset, ds, t, k) ==
  /\ ds = 256 * (2 ^ k)
  /\ offset = (0 - (t % (2 ^ k))) * 256
  /\ (0 - offset) \in { m * 256 : m \in 0..((2 ^ k) - 1) }
  /\ 0 <= 0 - offset
  /\ (0 - offset) + 256 <= ds

\* C15.  Crop rectangle: the ancestor chosen k levels above is drawn at
\* offset ((ancestor << k) - coord) * tileSize with side tileSize << k on
\* both axes, so that the tile's window starts at a multiple of tileSize
\* between 0 and (2^k - 1) * tileSize and ends within the scaled image.
C15_CropRectangle ==
  (lastCall.fn = "tileFromLarger" /\ lastCall.result[1] # null) =>
    /\ WindowOf(lastCall.result[1].dx, lastCall.result[1].ds, lastCall.coord.x,
                lastCall.result[1].levelsAbove)
    /\ WindowOf(lastCall.result[1].dy, lastCall.result[1].ds, lastCall.coord.y,
                lastCall.result[1].levelsAbove)
    /\ lastCall.result[1].dx
         = ((lastCall.coord.x \div (2 ^ lastCall.result[1].levelsAbove))
              * (2 ^ lastCall.result[1].levelsAbove) - lastCall.coord.x) * 256
    /\ lastCall.result[1].dy
         = ((lastCall.coord.y \div (2 ^ lastCall.result[1].levelsAbove))
              * (2 ^ lastCall.result[1].levelsAbove) - lastCall.coord.y) * 256

\* C15 witness: the bottom-right tile of zoom 2 has been cropped from the
\* root image, drawn at (-768, -768) with side 1024.
C15_CornerOfRoot ==
  /\ lastCall.fn = "tileFromLarger"
  /\ lastCall.zoom = 2
  /\ lastCall.coord = [x |-> 3, y |-> 3]
  /\ lastCall.result[1] # null
  /\ lastCall.result[1].levelsAbove = 2
  /\ lastCall.result[1].dx = 0 - 768
  /\ lastCall.result[1].dy = 0 - 768
  /\ lastCall.result[1].ds = 1024

\* The pixels of a rectangle.
Pixels(r) == (r.x..(r.x + r.w - 1)) \X (r.y..(r.y + r.h - 1))

\* C16.  Quadrant tiling: the four rectangles compositeFromSmaller splits
\* a rectangle into share no pixel and together cover exactly its pixels;
\* the left and top ones get the width and the height halved and rounded
\* down, the right and bottom ones the rest; so the rectangles the
\* recursion goes on with are split in the same way.
C16_QuadrantTiling ==
  lastCall.fn = "cd" =>
    /\ \A q1 \in DOMAIN lastCall.result, q2 \in DOMAIN lastCall.result :
         q1 # q2 => Pixels(lastCall.result[q1]) \cap Pixels(lastCall.result[q2]) = {}
    /\ UNION { Pixels(lastCall.result[q]) : q \in DOMAIN lastCall.result }
         = Pixels(lastCall.drect)
    /\ \A q \in DOMAIN lastCall.result :
         /\ lastCall.result[q].w
              = IF q[1] = 0 THEN lastCall.drect.w \div 2
                ELSE lastCall.drect.w - (lastCall.drect.w \div 2)
         /\ lastCall.result[q].h
              = IF q[2] = 0 THEN lastCall.drect.h \div 2
                ELSE lastCall.drect.h - (lastCall.drect.h \div 2)
         /\ lastCall.result[q].w >= 0
         /\ lastCall.result[q].h >= 0

\* C16 witness: a rectangle of 257 by 257 pixels has been split into
\* quadrants of 128 and 129 pixels on each axis.
C16_OddSplit ==
  /\ lastCall.fn = "cd"
  /\ lastCall.drect = [x |-> 3, y |-> 7, w |-> 257, h |-> 257]
  /\ lastCall.result[<<0, 0>>] = [x |-> 3, y |-> 7, w |-> 128, h |-> 128]
  /\ lastCall.result[<<1, 1>>] = [x |-> 131, y |-> 135, w |-> 129, h |-> 129]

\* The bound handed down from a cell with this mipmap: the smallest
\* difference of its entries from lod if that is below bound, else bound.
NextBound(mipmap, lod, bound) ==
  SetMin({bound} \cup { IF l < lod THEN lod - l ELSE l - lod : l \in DOMAIN mipmap })

\* The quadrants of a cell are filled from the entries at exactly the LOD
\* targeted at each level, before the cut-off is met.
RECURSIVE ExactlyCovered(_, _, _, _, _)
ExactlyCovered(cache, coord, zoom, lod, bound) ==
  /\ lod + bound >= 0
  /\ \A i \in 0..1, j \in 0..1 :
       \/ <<zoom, 2 * coord.y + j, 2 * coord.x + i, lod>> \in DOMAIN cache
       \/ ExactlyCovered(cache, [x |-> 2 * coord.x + i, y |-> 2 * coord.y + j],
                         zoom + 1, lod - 1,
                         NextBound(Mipmap(cache, zoom,
                                          [x |-> 2 * coord.x + i, y |-> 2 * coord.y + j]),
                                   lod, bound))

\* C17.  Meaning of complete: compositeFromSmaller returns true if and
\* only if lod + bound >= 0 and each of the four child cells either has
\* an entry at exactly lod or is itself complete one zoom down at lod - 1;
\* a proxy drawn into a quadrant does not make it complete, so a call
\* that drew nothing but proxies returns false.
C17_MeaningOfComplete ==
  lastCall.fn = "compositeFromSmaller" =>
    /\ lastCall.result.complete
         = ExactlyCovered(imageCache, lastCall.coord, lastCall.zoom, lastCall.lod,
                          lastCall.proxyBetterThan)
    /\ (\A k \in DOMAIN lastCall.result.draws : ~lastCall.result.draws[k].exact)
         => ~lastCall.result.complete

\* C17 witness: a call past the cut-off drew proxies and no exact entry,
\* and returned false.
C17_ProxiesOnly ==
  /\ lastCall.fn = "compositeFromSmaller"
  /\ lastCall.lod + lastCall.proxyBetterThan >= 0
  /\ lastCall.result.draws # <<>>
  /\ \A k \in DOMAIN lastCall.result.draws : ~lastCall.result.draws[k].exact
  /\ ~lastCall.result.complete

\* C18.  Compositor termination: every recursive call has the caller's
\* lod less 1 and a bound no greater than the caller's; a call with
\* lod + proxyBetterThan < 0 returns false and neither draws nor recurses;
\* the recursion is at most lod + proxyBetterThan + 1 levels deep.
C18_Termination ==
  lastCall.fn = "compositeFromSmaller" =>
    /\ \A k \in DOMAIN lastCall.result.calls :
         /\ lastCall.result.calls[k].lod = lastCall.result.calls[k].callerLod - 1
         /\ lastCall.result.calls[k].proxyBetterThan
              <= lastCall.result.calls[k].callerBetterThan
    /\ lastCall.lod + lastCall.proxyBetterThan < 0
         => lastCall.result = [complete |-> FALSE, draws |-> <<>>, calls |-> <<>>,
                               depth |-> 0]
    /\ lastCall.result.depth
         <= (IF lastCall.lod + lastCall.proxyBetterThan + 1 > 0
             THEN lastCall.lod + lastCall.proxyBetterThan + 1 ELSE 0)

\* C18 witness: a call went as deep as its lod and bound allow, four
\* levels, and another one handed a smaller bound down below a proxy.
C18_DeepestRecursion ==
  /\ lastCall.fn = "compositeFromSmaller"
  /\ lastCall.result.depth = lastCall.lod + lastCall.proxyBetterThan + 1
  /\ lastCall.result.depth = 4
  /\ \E k \in DOMAIN lastCall.result.calls :
       lastCall.result.calls[k].proxyBetterThan
         < lastCall.result.calls[k].callerBetterThan

\* A proxy was drawn into quadrant <<i, j>> of the composite layer of content.
ProxyDrawnInto(content, i, j) ==
  \E k \in DOMAIN content :
    /\ content[k].kind = "composite"
    /\ \E d \in DOMAIN content[k].draws :
         /\ ~content[k].draws[d].exact
         /\ content[k].draws[d].rect
              = ChildRect([x |-> 0, y |-> 0, w |-> tileSize, h |-> tileSize], i, j)

\* The difference of an entry at LOD e of a child cell from the LOD the
\* compositor targets there, one below the LOD asked for.
ChildDifference(e, lod) == IF e < lod - 1 THEN lod - 1 - e ELSE e - (lod - 1)

\* C19.  Accept-any-proxy default: when no ancestor proxy was found, the
\* bound maxOversample + 1 is out of reach of the entries of the child
\* cells: every entry at an LOD of 0..maxOversample other than the one
\* targeted there differs from the target by less than the bound, and a
\* child cell with such an entry and no exact one has a proxy drawn.
C19_AnyProxyAccepted ==
  (/\ lastCall.fn = "createTileContent"
   /\ tileFromLarger(imageCache, lastCall.zoom, lastCall.coord, lastCall.lod)[1] = null)
    => \A i \in 0..1, j \in 0..1 :
         \A e \in DOMAIN Mipmap(imageCache, lastCall.zoom + 1,
                                ChildCoord(lastCall.coord, i, j)) \cap (0..maxOversample) :
           e # lastCall.lod - 1
             => /\ ChildDifference(e, lastCall.lod) < maxOversample + 1
                /\ Key(lastCall.zoom + 1, ChildCoord(lastCall.coord, i, j),
                       lastCall.lod - 1) \notin DOMAIN imageCache
                     => ProxyDrawnInto(lastCall.result, i, j)

\* C19 as amended: when no ancestor proxy was found, the bound is
\* maxOversample + 1 against the target lod - 1 of the child cells: an
\* entry at an LOD of 0..maxOversample other than the targeted one is
\* below the bound unless lod is 0 and the entry is at maxOversample, and
\* a child cell without an exact entry has a proxy drawn exactly when one
\* of its entries is below the bound.
C19_ProxyWithinCap ==
  (/\ lastCall.fn = "createTileContent"
   /\ tileFromLarger(imageCache, lastCall.zoom, lastCall.coord, lastCall.lod)[1] = null)
    => \A i \in 0..1, j \in 0..1 :
         /\ \A e \in DOMAIN Mipmap(imageCache, lastCall.zoom + 1,
                                   ChildCoord(lastCall.coord, i, j)) \cap (0..maxOversample) :
              e # lastCall.lod - 1
                => (ChildDifference(e, lastCall.lod) < maxOversample + 1
                      <=> ~(lastCall.lod = 0 /\ e = maxOversample))
         /\ Key(lastCall.zoom + 1, ChildCoord(lastCall.coord, i, j), lastCall.lod - 1)
              \notin DOMAIN imageCache
              => (ProxyDrawnInto(lastCall.result, i, j)
                    <=> \E e \in DOMAIN Mipmap(imageCache, lastCall.zoom + 1,
                                               ChildCoord(lastCall.coord, i, j)) :
                          ChildDifference(e, lastCall.lod) < maxOversample + 1)

\* C19 witness: asked for LOD 0 with maxOversample 1 and nothing above,
\* the top-left child's entry at LOD 0 was drawn as a proxy and the
\* top-right child's entry at LOD 1 was not.
C19_OneDrawnOneCapped ==
  /\ lastCall.fn = "createTileContent"
  /\ lastCall.zoom = 0
  /\ lastCall.lod = 0
  /\ maxOversample = 1
  /\ DOMAIN imageCache = { <<1, 0, 0, 0>>, <<1, 0, 1, 1>> }
  /\ ProxyDrawnInto(lastCall.result, 0, 0)
  /\ ~ProxyDrawnInto(lastCall.result, 1, 0)

\* C20.  Cache keys come from requests: the cache changes only when a
\* pending decode is fulfilled, and then at the one key made of the zoom,
\* the coordinates and the LOD the fetch was started with; a fetch is
\* started with the LOD the settings give at that time, clamped to
\* 0..maxOversample, and for the image of that LOD; so every populated
\* key has an LOD of 0 up to a maxOversample once in force, whatever the
\* settings have become since.
C20_KeysFromRequests ==
  [][/\ imageCache' # imageCache
          => \E c \in pending \ pending' :
               /\ DOMAIN imageCache'
                    = DOMAIN imageCache \cup {<<c.zoom, c.coord.y, c.coord.x, c.lod>>}
               /\ imageCache'[<<c.zoom, c.coord.y, c.coord.x, c.lod>>] = c.image
               /\ \A k \in DOMAIN imageCache :
                    k # <<c.zoom, c.coord.y, c.coord.x, c.lod>>
                      => imageCache'[k] = imageCache[k]
     /\ \A c \in pending' \ pending :
          /\ c.lod = Clamp(levelOfDetail - c.zoom, 0, maxOversample)
          /\ 0 <= c.lod
          /\ c.lod <= maxOversample
          /\ c.image.src = getTileUrl(c.coord, c.zoom, c.lod)
          /\ \E e \in Range(activeTiles') : e.zoom = c.zoom /\ e.coord = c.coord
     /\ \A k \in DOMAIN imageCache' : 0 <= k[4] /\ k[4] <= MaxSetting]_vars

\* C20 witness: the root has been stored at LOD 1 and a second fetch of it
\* at LOD 1 is still in flight, while maxOversample has become 0.
C20_KeyOutlivesSetting ==
  /\ maxOversample = 0
  /\ <<0, 0, 0, 1>> \in DOMAIN imageCache
  /\ \E c \in pending : c.zoom = 0 /\ c.lod = 1

\* C21.  LOD-0 requests are never completed by finer tiles: called at
\* the LOD below 0, where the cache holds nothing, the compositor does
\* not report complete; so createTileContent at LOD 0 returns no complete
\* composite whatever finer tiles are cached, and unless the cell or an
\* ancestor k zooms above holds the entry at LOD k, it starts one fetch,
\* for the tile at LOD 0, and returns its image as the last layer.
C21_LodZeroAlwaysFetched ==
  /\ \A k \in DOMAIN imageCache : k[4] >= 0
  /\ (lastCall.fn = "compositeFromSmaller" /\ lastCall.lod = 0 - 1)
       => ~lastCall.result.complete
  /\ (lastCall.fn = "createTileContent" /\ lastCall.lod = 0)
       => /\ \A i \in DOMAIN lastCall.result :
               lastCall.result[i].kind = "composite" => ~lastCall.result[i].complete
          /\ (\A k \in 0..lastCall.zoom :
                <<lastCall.zoom - k, lastCall.coord.y \div (2 ^ k),
                  lastCall.coord.x \div (2 ^ k), k>> \notin DOMAIN imageCache)
               => \E c \in lastCall.started :
                    /\ lastCall.started = {c}
                    /\ <<c.zoom, c.coord.y, c.coord.x, c.lod>>
                         = <<lastCall.zoom, lastCall.coord.y, lastCall.coord.x, 0>>
                    /\ c.image.kind = "img"
                    /\ c.image \notin Range(imageCache)
                    /\ Len(lastCall.result) >= 2
                    /\ lastCall.result[Len(lastCall.result)] = c.image

\* C21 witness: with the four cells below the root cached at LOD 0, the
\* root asked for at LOD 0 got an incomplete composite of four proxies
\* below the image of a fetch just started.
C21_FinerTilesCached ==
  /\ lastCall.fn = "createTileContent"
  /\ lastCall.lod = 0
  /\ lastCall.zoom = 0
  /\ Quad(1, 0) \subseteq DOMAIN imageCache
  /\ lastCall.started # {}
  /\ Len(lastCall.result) = 2
  /\ lastCall.result[1].kind = "composite"
  /\ ~lastCall.result[1].complete
  /\ Len(lastCall.result[1].draws) = 4

\* C22.  Resolution is stable: with the settings as they are, a request
\* that returns without starting a fetch returns without starting one
\* after every step of the engine (a request, a release, a refresh, a
\* decode fulfilled or rejected), whatever that step adds to the cache.
C22_ResolutionStable ==
  [][(levelOfDetail' = levelOfDetail /\ maxOversample' = maxOversample)
       => \A p \in TileParams :
            Call(p, children, pending).started = {}
              => getTileContent(imageCache', levelOfDetail', maxOversample', p.coord,
                                p.zoom, ImagesInUse(imageCache', children', pending')
                               ).started = {}]_vars

\* C22 witness: the root, asked for at LOD 2, is completed by finer tiles
\* through its top-left child, after that child got an entry at LOD 0 that
\* is drawn as a proxy and hands a smaller bound down.
C22_ResolvedPastProxy ==
  /\ levelOfDetail = 2
  /\ maxOversample = 2
  /\ <<1, 0, 0, 0>> \in DOMAIN imageCache
  /\ DOMAIN Mipmap(imageCache, 0, [x |-> 0, y |-> 0]) = {}
  /\ Call([zoom |-> 0, coord |-> [x |-> 0, y |-> 0]], children, pending).started = {}
  /\ Shape(Call([zoom |-> 0, coord |-> [x |-> 0, y |-> 0]], children, pending).content)
       = << <<"composite", TRUE>> >>

\* C23.  Every displayed tile keeps content: in every state every
\* registered div has at least one child, also when two registered divs
\* are of the same coord and zoom and the exact entry is cached.
C23_TileKeepsContent ==
  \A e \in Range(activeTiles) :
    /\ e.div \in DOMAIN children
    /\ Len(children[e.div]) >= 1

=============================================================================
